---- MODULE Spec2Model ----
(***************************************************************************)
(* ESP32 CSI collector: the GUI controller (main.py, ESP32CSIWidget), the  *)
(* standalone collector (devices/esp32_ble.py, CSICollector) and the CSV   *)
(* log both of them write (devices/csi_data_full.csv).                     *)
(*                                                                         *)
(* Text is a sequence of symbols: one-character strings, plus the atomic   *)
(* comma-free words "timestamp", "raw_csi" (the header's fields) and "ts"  *)
(* (an ISO-8601 timestamp).                                                *)
(***************************************************************************)
EXTENDS Integers, Sequences, FiniteSets, TLC

VARIABLES
    csv,              \* the log file: [exists, lines]
    gui,              \* GUI process: [pc, file_exists, write_header]
    client,           \* ESP32CSIWidget.client: 0 (None) or a client id
    btn,              \* enabled flags of connect_btn, start_btn, stop_btn
    plot_timer,       \* whether plot_timer is running
    latest_csi_data,  \* ESP32CSIWidget.latest_csi_data
    accepted,         \* samples the GUI handler appended since the last clear
    tasks,            \* the GUI's suspended coroutines, by slot
    clients,          \* BleakClient objects the GUI created, by id
    logged,           \* what the GUI's last step wrote to the log pane
    called,           \* the transport operations the GUI's last step started
    cli,              \* collector process: [pc, file_exists, sleep]
    csi_data_list,    \* CSICollector.csi_data_list
    cli_client,       \* the collector's BleakClient: [st, notifying]
    printed,          \* what the collector's last step printed
    profile,          \* the peripheral's GATT table, once read
    rx,               \* the last notification delivered: [n, to, data]
    analysis          \* what performdataa's last run read and returned

vars == <<csv, gui, client, btn, plot_timer, latest_csi_data, accepted, tasks,
          clients, logged, called, cli, csi_data_list, cli_client, printed,
          profile, rx, analysis>>

guiVars == <<gui, client, btn, plot_timer, latest_csi_data, accepted, tasks,
             clients, logged, called>>
cliVars == <<cli, csi_data_list, cli_client, printed>>

----------------------------------------------------------------------------
(* Bounds of the model *)

MaxText == 5          \* longest payload text drawn in SpecParse
MaxNotifs == 3        \* notifications the peripheral sends in one run
MaxTasks == 2         \* GUI coroutines suspended at the same time
MaxClients == 2       \* BleakClient objects the GUI creates in one run

(* main.py:21 sets MAX_SAMPLES = 100; the model scales the capacity down so
   that eviction at capacity is reached within MaxNotifs notifications. *)
MAX_SAMPLES == 2

MIN_CSI_VALUES == 10
RECONNECT_DELAY == 5
SCAN_INTERVAL == 1

----------------------------------------------------------------------------
(* Text *)

Digits == {"0", "1"}
Chars == Digits \cup {"-", ",", "a", " "}

DigitVal(c) ==
    CASE c = "0" -> 0 [] c = "1" -> 1 [] c = "2" -> 2 [] c = "3" -> 3
      [] c = "4" -> 4 [] c = "5" -> 5 [] c = "6" -> 6 [] c = "7" -> 7
      [] c = "8" -> 8 [] c = "9" -> 9

DigitChar(d) ==
    CASE d = 0 -> "0" [] d = 1 -> "1" [] d = 2 -> "2" [] d = 3 -> "3"
      [] d = 4 -> "4" [] d = 5 -> "5" [] d = 6 -> "6" [] d = 7 -> "7"
      [] d = 8 -> "8" [] d = 9 -> "9"

\* str.strip(): leading and trailing whitespace removed
RECURSIVE strip(_)
strip(s) ==
    IF s = <<>> THEN s
    ELSE IF Head(s) = " " THEN strip(Tail(s))
    ELSE IF s[Len(s)] = " " THEN strip(SubSeq(s, 1, Len(s) - 1))
    ELSE s

\* str.split(","): never empty, "" splits to [""]
RECURSIVE split(_)
split(s) ==
    IF \A i \in 1..Len(s) : s[i] # ","
    THEN <<s>>
    ELSE LET i == CHOOSE k \in 1..Len(s) :
                      s[k] = "," /\ \A j \in 1..(k - 1) : s[j] # ","
         IN  <<SubSeq(s, 1, i - 1)>> \o split(SubSeq(s, i + 1, Len(s)))

\* x.lstrip("-")
RECURSIVE lstrip(_)
lstrip(x) == IF x # <<>> /\ Head(x) = "-" THEN lstrip(Tail(x)) ELSE x

\* str.isdigit(): non-empty and every character a digit
isdigit(x) == x # <<>> /\ \A i \in 1..Len(x) : x[i] \in Digits

\* the value of a string of digits
RECURSIVE DigitsValue(_)
DigitsValue(x) ==
    IF x = <<>> THEN 0
    ELSE 10 * DigitsValue(SubSeq(x, 1, Len(x) - 1)) + DigitVal(x[Len(x)])

\* int(x) raises ValueError on more than one sign
IntRaises(x) == Len(x) - Len(lstrip(x)) > 1

\* int(x) for a token that passed the filter and does not raise
int(x) == IF Head(x) = "-" THEN 0 - DigitsValue(Tail(x)) ELSE DigitsValue(x)

\* str(n) for an integer
RECURSIVE str(_)
str(n) ==
    IF n < 0 THEN <<"-">> \o str(0 - n)
    ELSE IF n < 10 THEN <<DigitChar(n)>>
    ELSE str(n \div 10) \o <<DigitChar(n % 10)>>

\* ','.join(map(str, values))
RECURSIVE join(_)
join(values) ==
    IF values = <<>> THEN <<>>
    ELSE IF Len(values) = 1 THEN str(values[1])
    ELSE str(values[1]) \o <<",">> \o join(Tail(values))

Keep(x) == isdigit(lstrip(x))

\* data.decode().strip(), then
\* [int(x) for x in raw_csi.split(",") if x.lstrip("-").isdigit()]
csi_values(data) ==
    IF ~data.ok THEN [err |-> "decode", values |-> <<>>]
    ELSE LET kept == SelectSeq(split(strip(data.text)), Keep)
         IN  IF \E i \in 1..Len(kept) : IntRaises(kept[i])
             THEN [err |-> "value", values |-> <<>>]
             ELSE [err |-> "none",
                   values |-> [i \in 1..Len(kept) |-> int(kept[i])]]

----------------------------------------------------------------------------
(* The log file *)

HeaderLine == <<"timestamp", ",", "raw_csi">>

\* f"{timestamp},{','.join(map(str, csi_values))}\n"
RecordLine(values) == <<"ts", ",">> \o join(values)

\* what is left of a line whose first bytes another write replaced: the
\* header is shorter than a timestamp, so the cut falls inside the timestamp
Remnant(line) == <<"ts_tail">> \o Tail(line)

\* open(path, "a"): creates a missing file, keeps an existing one
OpenAppend(f) == [exists |-> TRUE, lines |-> IF f.exists THEN f.lines ELSE <<>>]

\* open(path, "w"): creates or truncates
OpenTruncate(f) == [exists |-> TRUE, lines |-> <<>>]

\* a write through an append-mode handle lands at the end of the file
WriteAppend(f, line) == [f EXCEPT !.lines = Append(@, line)]

\* the flush of a "w"-mode handle that wrote one line since its open: the
\* bytes land at offset 0, over whatever the file holds by then
WriteAtStart(f, line) ==
    [f EXCEPT !.lines =
        IF @ = <<>> THEN <<line>>
        ELSE IF @[1] = line THEN @
        ELSE <<line, Remnant(@[1])>> \o Tail(@)]

----------------------------------------------------------------------------
(* Payloads: the bytes of one notification, decodable or not *)

Undecodable == [ok |-> FALSE, text |-> <<>>]
Bytes(text) == [ok |-> TRUE, text |-> text]

RECURSIVE TextsOfLen(_)
TextsOfLen(n) ==
    IF n = 0 THEN {<<>>}
    ELSE {Append(s, c) : s \in TextsOfLen(n - 1), c \in Chars}

Texts == UNION {TextsOfLen(n) : n \in 0..MaxText}

\* every payload up to MaxText characters
AllPayloads == {Undecodable} \cup {Bytes(s) : s \in Texts}

TenValues == <<"1", ",", "1", ",", "1", ",", "1", ",", "1", ",",
               "1", ",", "1", ",", "1", ",", "1", ",", "1">>

\* one payload of each kind the handler tells apart
SomePayloads ==
    { Bytes(<<"1">>), Bytes(<<"-", "1", ",", "0">>), Bytes(TenValues),
      Bytes(<<>>), Bytes(<<"a", ",", "-">>), Bytes(<<"-", "-", "1">>),
      Undecodable }

OnePayload == { Bytes(<<"1">>) }

----------------------------------------------------------------------------
(* The notification handlers *)

\* the buffer filled from the front: insert(0, v), and pop() at capacity
Push_front(buffer, v) ==
    LET b == <<v>> \o buffer
    IN  IF Len(b) > MAX_SAMPLES THEN SubSeq(b, 1, MAX_SAMPLES) ELSE b

\* latest_csi_data.append(v); if len > MAX_SAMPLES: pop(0)
Push(buffer, v) ==
    LET b == Append(buffer, v)
    IN  IF Len(b) > MAX_SAMPLES THEN Tail(b) ELSE b

\* with open(data_file, "a") as f: f.write(record)
Save(f, values, write_ok) ==
    IF write_ok THEN WriteAppend(OpenAppend(f), RecordLine(values)) ELSE f

\* the handler without its early return on an empty value list
Widget_notification_handler_no_return(data, write_ok) ==
    LET r == csi_values(data)
    IN  IF r.err = "decode" THEN
            /\ logged' = <<"error_processing">>
            /\ UNCHANGED <<latest_csi_data, accepted, csv>>
        ELSE IF r.err = "value" THEN
            /\ logged' = <<"raw", "error_processing">>
            /\ UNCHANGED <<latest_csi_data, accepted, csv>>
        ELSE
            /\ latest_csi_data' = Push(latest_csi_data, r.values)
            /\ accepted' = Append(accepted, r.values)
            /\ csv' = Save(csv, r.values, write_ok)
            /\ logged' = <<"raw">>
                  \o (IF Len(r.values) < 10 THEN <<"few_values">> ELSE <<>>)
                  \o (IF write_ok THEN <<>> ELSE <<"save_error">>)
                  \o <<"values">>

\* ESP32CSIWidget.notification_handler(sender, data); write_ok is whether
\* the file write goes through
Widget_notification_handler(data, write_ok) ==
    LET r == csi_values(data)
    IN  IF r.err = "decode" THEN
            /\ logged' = <<"error_processing">>
            /\ UNCHANGED <<latest_csi_data, accepted, csv>>
        ELSE IF r.err = "value" THEN
            /\ logged' = <<"raw", "error_processing">>
            /\ UNCHANGED <<latest_csi_data, accepted, csv>>
        ELSE IF r.values = <<>> THEN
            /\ logged' = <<"raw", "no_valid">>
            /\ UNCHANGED <<latest_csi_data, accepted, csv>>
        ELSE
            /\ latest_csi_data' = Push(latest_csi_data, r.values)
            /\ accepted' = Append(accepted, r.values)
            /\ csv' = Save(csv, r.values, write_ok)
            /\ logged' = <<"raw">>
                  \o (IF Len(r.values) < 10 THEN <<"few_values">> ELSE <<>>)
                  \o (IF write_ok THEN <<>> ELSE <<"save_error">>)
                  \o <<"values">>

\* the handler saving before it appends, its return on a save error then
\* skipping the append
Collector_notification_handler_save_first(data, write_ok) ==
    LET r == csi_values(data)
    IN  IF r.err = "decode" THEN
            /\ printed' = <<"error_processing">>
            /\ UNCHANGED <<csi_data_list, csv>>
        ELSE IF r.err = "value" THEN
            /\ printed' = <<"raw", "error_processing">>
            /\ UNCHANGED <<csi_data_list, csv>>
        ELSE IF r.values = <<>> THEN
            /\ printed' = <<"raw", "no_valid">>
            /\ UNCHANGED <<csi_data_list, csv>>
        ELSE
            /\ csi_data_list' = IF write_ok THEN Append(csi_data_list, r.values)
                                ELSE csi_data_list
            /\ csv' = Save(csv, r.values, write_ok)
            /\ printed' = <<"raw">>
                  \o (IF Len(r.values) < MIN_CSI_VALUES
                      THEN <<"few_values">> ELSE <<>>)
                  \o (IF write_ok THEN <<"parsed">> ELSE <<"save_error">>)

\* CSICollector.notification_handler(sender, data)
Collector_notification_handler(data, write_ok) ==
    LET r == csi_values(data)
    IN  IF r.err = "decode" THEN
            /\ printed' = <<"error_processing">>
            /\ UNCHANGED <<csi_data_list, csv>>
        ELSE IF r.err = "value" THEN
            /\ printed' = <<"raw", "error_processing">>
            /\ UNCHANGED <<csi_data_list, csv>>
        ELSE IF r.values = <<>> THEN
            /\ printed' = <<"raw", "no_valid">>
            /\ UNCHANGED <<csi_data_list, csv>>
        ELSE
            /\ csi_data_list' = Append(csi_data_list, r.values)
            /\ csv' = Save(csv, r.values, write_ok)
            /\ printed' = <<"raw">>
                  \o (IF Len(r.values) < MIN_CSI_VALUES
                      THEN <<"few_values">> ELSE <<>>)
                  \o (IF write_ok THEN <<"parsed">> ELSE <<"save_error">>)

----------------------------------------------------------------------------
(* Construction: the state before either process runs *)

NoTask == [op |-> "none", pc |-> "none", cl |-> 0]
NoClient == [st |-> "unused", notifying |-> FALSE]
Buttons(c, s, p) == [connect |-> c, start |-> s, stop |-> p]

\* performdataa has not been run
NotRun == [ran |-> FALSE, lines |-> <<>>, err |-> "none", rows |-> <<>>]

\* ESP32CSIWidget.__init__ up to _init_data: latest_csi_data = [],
\* client = None, start and stop disabled
WidgetFresh ==
    /\ client = 0
    /\ btn = Buttons(TRUE, FALSE, FALSE)
    /\ plot_timer = FALSE
    /\ latest_csi_data = <<>>
    /\ accepted = <<>>
    /\ tasks = [t \in 1..MaxTasks |-> NoTask]
    /\ clients = [c \in 1..MaxClients |-> NoClient]
    /\ logged = <<>>
    /\ called = <<>>

\* the same object state, as the outcome of a step
WidgetReset ==
    /\ client' = 0
    /\ btn' = Buttons(TRUE, FALSE, FALSE)
    /\ plot_timer' = FALSE
    /\ latest_csi_data' = <<>>
    /\ accepted' = <<>>
    /\ tasks' = [t \in 1..MaxTasks |-> NoTask]
    /\ clients' = [c \in 1..MaxClients |-> NoClient]
    /\ logged' = <<>>
    /\ called' = <<>>

\* CSICollector.__init__ up to _ensure_data_file: csi_data_list = []
CollectorFresh ==
    /\ csi_data_list = <<>>
    /\ cli_client = NoClient
    /\ printed = <<>>

CollectorReset ==
    /\ csi_data_list' = <<>>
    /\ cli_client' = NoClient
    /\ printed' = <<>>

Init ==
    /\ csv = [exists |-> FALSE, lines |-> <<>>]
    /\ gui = [pc |-> "off", file_exists |-> FALSE, write_header |-> FALSE]
    /\ WidgetFresh
    /\ cli = [pc |-> "off", file_exists |-> FALSE, sleep |-> 0]
    /\ CollectorFresh
    /\ profile = "unread"
    /\ rx = [n |-> 0, to |-> "none", data |-> Undecodable]
    /\ analysis = NotRun

----------------------------------------------------------------------------
(* ESP32CSIWidget._init_data, one step per file operation *)

\* file_exists = os.path.exists(self.data_file)
_init_data_exists ==
    /\ gui.pc = "off"
    /\ gui' = [pc |-> "exists_checked", file_exists |-> csv.exists,
               write_header |-> FALSE]
    /\ logged' = <<>>
    /\ called' = <<>>
    /\ UNCHANGED <<csv, client, btn, plot_timer, latest_csi_data, accepted,
                   tasks, clients, cliVars, profile, rx, analysis>>

\* open(self.data_file, 'a'); not file_exists or f.tell() == 0
_init_data_open ==
    /\ gui.pc = "exists_checked"
    /\ csv' = OpenAppend(csv)
    /\ gui' = [gui EXCEPT !.pc = "opened",
                          !.write_header = ~gui.file_exists \/ csv'.lines = <<>>]
    /\ UNCHANGED <<client, btn, plot_timer, latest_csi_data, accepted, tasks,
                   clients, logged, called, cliVars, profile, rx, analysis>>

\* f.write("timestamp,raw_csi\n") and the close of the with block
_init_data_write ==
    /\ gui.pc = "opened"
    /\ csv' = IF gui.write_header THEN WriteAppend(csv, HeaderLine) ELSE csv
    /\ logged' = (IF gui.write_header THEN <<"headers">> ELSE <<>>)
                  \o <<"file_ready">>
    /\ gui' = [gui EXCEPT !.pc = "run"]
    /\ UNCHANGED <<client, btn, plot_timer, latest_csi_data, accepted, tasks,
                   clients, called, cliVars, profile, rx, analysis>>

\* the window is closed or the process killed: the object and its
\* connections are gone
Widget_exit ==
    /\ gui.pc # "off"
    /\ gui' = [pc |-> "off", file_exists |-> FALSE, write_header |-> FALSE]
    /\ WidgetReset
    /\ UNCHANGED <<csv, cliVars, profile, rx, analysis>>

----------------------------------------------------------------------------
(* CSICollector._ensure_data_file, one step per file operation *)

\* file_exists = os.path.exists(DATA_FILE)
_ensure_data_file_exists ==
    /\ cli.pc = "off"
    /\ cli' = [pc |-> "exists_checked", file_exists |-> csv.exists, sleep |-> 0]
    /\ UNCHANGED <<csv, guiVars, csi_data_list, cli_client, printed, profile, rx, analysis>>

\* open(DATA_FILE, "a" if file_exists else "w")
_ensure_data_file_open ==
    /\ cli.pc = "exists_checked"
    /\ csv' = IF cli.file_exists THEN OpenAppend(csv) ELSE OpenTruncate(csv)
    /\ cli' = [cli EXCEPT !.pc = "opened"]
    /\ UNCHANGED <<guiVars, csi_data_list, cli_client, printed, profile, rx, analysis>>

\* if not file_exists: f.write("timestamp,raw_csi\n"); the close of the with
\* block; then main() enters scan_and_connect up to BleakScanner.discover()
_ensure_data_file_write ==
    /\ cli.pc = "opened"
    /\ csv' = IF cli.file_exists THEN csv ELSE WriteAtStart(csv, HeaderLine)
    /\ cli' = [cli EXCEPT !.pc = "scan"]
    /\ printed' = <<"scanning">>
    /\ UNCHANGED <<guiVars, csi_data_list, cli_client, profile, rx, analysis>>

\* Ctrl+C or a kill: the object and its connection are gone
Collector_exit ==
    /\ cli.pc # "off"
    /\ cli' = [pc |-> "off", file_exists |-> FALSE, sleep |-> 0]
    /\ CollectorReset
    /\ UNCHANGED <<csv, guiVars, profile, rx, analysis>>

----------------------------------------------------------------------------
(* A notification handed to a constructed object's handler *)

WidgetBuilt == gui.pc = "run"
CollectorBuilt == cli.pc \notin {"off", "exists_checked", "opened"}

Widget_handler_call(data, write_ok) ==
    /\ WidgetBuilt
    /\ rx.n < MaxNotifs
    /\ Widget_notification_handler(data, write_ok)
    /\ rx' = [n |-> rx.n + 1, to |-> "gui", data |-> data]
    /\ called' = <<>>
    /\ UNCHANGED <<gui, client, btn, plot_timer, tasks, clients, cliVars, profile,
                   analysis>>

\* a handler whose parse error escapes it and takes the connection down
Collector_handler_call_escaping(data, write_ok) ==
    /\ CollectorBuilt
    /\ rx.n < MaxNotifs
    /\ Collector_notification_handler(data, write_ok)
    /\ rx' = [n |-> rx.n + 1, to |-> "cli", data |-> data]
    /\ cli_client' = IF csi_values(data).err = "none" THEN cli_client
                     ELSE [st |-> "closed", notifying |-> FALSE]
    /\ UNCHANGED <<guiVars, cli, profile, analysis>>

Collector_handler_call(data, write_ok) ==
    /\ CollectorBuilt
    /\ rx.n < MaxNotifs
    /\ Collector_notification_handler(data, write_ok)
    /\ rx' = [n |-> rx.n + 1, to |-> "cli", data |-> data]
    /\ UNCHANGED <<guiVars, cli, cli_client, profile, analysis>>

----------------------------------------------------------------------------
(* The transport, as the GUI's coroutines see it *)

Task(op, pc, cl) == [op |-> op, pc |-> pc, cl |-> cl]

HasFreeTask == \E t \in 1..MaxTasks : tasks[t] = NoTask
FreeTask ==
    CHOOSE t \in 1..MaxTasks :
        tasks[t] = NoTask /\ \A u \in 1..(t - 1) : tasks[u] # NoTask

Unused == {c \in 1..MaxClients : clients[c].st = "unused"}
NewId == CHOOSE c \in Unused : \A d \in Unused : c <= d

\* connect coroutines that have yet to create their BleakClient
ToCreate ==
    {t \in 1..MaxTasks : tasks[t].op = "connect"
                         /\ tasks[t].pc \in {"discover", "replace_disconnect"}}

\* client.is_connected
is_connected(cs, c) == cs[c].st = "connected"

\* the outcome of client.disconnect(): a connected client is closed unless
\* the call raised
Disconnected(cs, c, ok) ==
    IF ok /\ cs[c].st = "connected"
    THEN [cs EXCEPT ![c] = [st |-> "closed", notifying |-> FALSE]]
    ELSE cs

\* the peripheral's GATT table: read once, then the same for every client
Gatt == IF profile = "unread"
        THEN {"ok", "no_service", "no_characteristic"}
        ELSE {profile}

\* the link of a connected client drops
Widget_link_lost ==
    /\ \E c \in 1..MaxClients :
          /\ clients[c].st = "connected"
          /\ clients' = [clients EXCEPT ![c] = [st |-> "closed",
                                                notifying |-> FALSE]]
    /\ UNCHANGED <<csv, gui, client, btn, plot_timer, latest_csi_data, accepted,
                   tasks, logged, called, cliVars, profile, rx, analysis>>

\* a subscribed, connected client of the GUI delivers a notification
Widget_notify(data, write_ok) ==
    /\ \E c \in 1..MaxClients : is_connected(clients, c) /\ clients[c].notifying
    /\ Widget_handler_call(data, write_ok)

----------------------------------------------------------------------------
(* ESP32CSIWidget.connect_ble, one step per resumption *)

\* the except block, up to its await or its end
connect_except(t) ==
    IF client # 0
    THEN /\ tasks' = [tasks EXCEPT ![t] = Task("connect", "fail_disconnect", client)]
         /\ called' = <<"disconnect">>
         /\ logged' = <<"connection_failed">>
         /\ UNCHANGED <<client, btn>>
    ELSE /\ tasks' = [tasks EXCEPT ![t] = NoTask]
         /\ called' = <<>>
         /\ logged' = <<"connection_failed">>
         /\ client' = 0
         /\ btn' = Buttons(TRUE, FALSE, FALSE)

\* a click on connect_btn: up to await BleakScanner.discover()
connect_ble ==
    /\ gui.pc = "run"
    /\ btn.connect
    /\ HasFreeTask
    /\ Cardinality(Unused) > Cardinality(ToCreate)
    /\ tasks' = [tasks EXCEPT ![FreeTask] = Task("connect", "discover", 0)]
    /\ logged' = <<"scanning">>
    /\ called' = <<"discover">>
    /\ UNCHANGED <<csv, gui, client, btn, plot_timer, latest_csi_data, accepted,
                   clients, cliVars, profile, rx, analysis>>

\* discover() returned or raised: up to the next await or the return
connect_ble_discovered(t, result) ==
    /\ tasks[t] = Task("connect", "discover", 0)
    /\ CASE result = "error" ->
              /\ connect_except(t)
              /\ UNCHANGED clients
         [] result = "none" ->
              /\ tasks' = [tasks EXCEPT ![t] = NoTask]
              /\ logged' = <<"not_found">>
              /\ called' = <<>>
              /\ UNCHANGED <<client, btn, clients>>
         [] result = "found" /\ client # 0 ->
              /\ tasks' = [tasks EXCEPT ![t] = Task("connect", "replace_disconnect", client)]
              /\ logged' = <<>>
              /\ called' = <<"disconnect">>
              /\ UNCHANGED <<client, btn, clients>>
         [] result = "found" /\ client = 0 ->
              /\ client' = NewId
              /\ clients' = [clients EXCEPT ![NewId].st = "new"]
              /\ tasks' = [tasks EXCEPT ![t] = Task("connect", "connect", NewId)]
              /\ logged' = <<>>
              /\ called' = <<"connect">>
              /\ UNCHANGED btn
    /\ UNCHANGED <<csv, gui, plot_timer, latest_csi_data, accepted, cliVars,
                   profile, rx, analysis>>

\* await self.client.disconnect() of the old client returned or raised
connect_ble_replaced(t, ok) ==
    /\ tasks[t].op = "connect" /\ tasks[t].pc = "replace_disconnect"
    /\ LET old == Disconnected(clients, tasks[t].cl, ok)
       IN  IF ok
           THEN /\ client' = NewId
                /\ clients' = [old EXCEPT ![NewId].st = "new"]
                /\ tasks' = [tasks EXCEPT ![t] = Task("connect", "connect", NewId)]
                /\ logged' = <<>>
                /\ called' = <<"connect">>
                /\ UNCHANGED btn
           ELSE /\ connect_except(t)
                /\ clients' = old
    /\ UNCHANGED <<csv, gui, plot_timer, latest_csi_data, accepted, cliVars,
                   profile, rx, analysis>>

\* connect_ble without its lookups of the service and the characteristic
connect_ble_connected_unverified(t, ok) ==
    /\ tasks[t].op = "connect" /\ tasks[t].pc = "connect"
    /\ LET now == IF ok THEN [clients EXCEPT ![tasks[t].cl].st = "connected"]
                  ELSE clients
       IN  /\ clients' = now
           /\ IF ok /\ client # 0 /\ is_connected(now, client)
              THEN \E g \in Gatt :
                      /\ profile' = g
                      /\ tasks' = [tasks EXCEPT ![t] = NoTask]
                      /\ logged' = <<"connected">>
                      /\ called' = <<>>
                      /\ btn' = Buttons(FALSE, TRUE, FALSE)
                      /\ UNCHANGED client
              ELSE /\ connect_except(t)
                   /\ UNCHANGED profile
    /\ UNCHANGED <<csv, gui, plot_timer, latest_csi_data, accepted, cliVars, rx, analysis>>

\* await self.client.connect() returned or raised; then the service and
\* characteristic lookups on whatever self.client is by now
connect_ble_connected(t, ok) ==
    /\ tasks[t].op = "connect" /\ tasks[t].pc = "connect"
    /\ LET now == IF ok THEN [clients EXCEPT ![tasks[t].cl].st = "connected"]
                  ELSE clients
       IN  /\ clients' = now
           /\ IF ok /\ client # 0 /\ is_connected(now, client)
              THEN \E g \in Gatt :
                      /\ profile' = g
                      /\ IF g = "ok"
                         THEN /\ tasks' = [tasks EXCEPT ![t] = NoTask]
                              /\ logged' = <<"connected">>
                              /\ called' = <<>>
                              /\ btn' = Buttons(FALSE, TRUE, FALSE)
                              /\ UNCHANGED client
                         ELSE connect_except(t)
              ELSE /\ connect_except(t)
                   /\ UNCHANGED profile
    /\ UNCHANGED <<csv, gui, plot_timer, latest_csi_data, accepted, cliVars, rx, analysis>>

\* the except block's await self.client.disconnect() returned or raised
connect_ble_failed(t, ok) ==
    /\ tasks[t].op = "connect" /\ tasks[t].pc = "fail_disconnect"
    /\ clients' = Disconnected(clients, tasks[t].cl, ok)
    /\ client' = 0
    /\ btn' = Buttons(TRUE, FALSE, FALSE)
    /\ tasks' = [tasks EXCEPT ![t] = NoTask]
    /\ logged' = <<>>
    /\ called' = <<>>
    /\ UNCHANGED <<csv, gui, plot_timer, latest_csi_data, accepted, cliVars,
                   profile, rx, analysis>>

----------------------------------------------------------------------------
(* ESP32CSIWidget.start_notify *)

\* the except block, entered from slot t, up to its await or its end
start_except(t, cs) ==
    IF client # 0 /\ is_connected(cs, client)
    THEN /\ tasks' = [tasks EXCEPT ![t] = Task("start", "fail_disconnect", client)]
         /\ called' = <<"disconnect">>
         /\ logged' = <<"start_failed">>
         /\ UNCHANGED <<client, btn>>
    ELSE /\ tasks' = [tasks EXCEPT ![t] = NoTask]
         /\ called' = <<>>
         /\ logged' = <<"start_failed">>
         /\ client' = 0
         /\ btn' = Buttons(TRUE, FALSE, FALSE)

\* a click on start_btn: up to await self.client.start_notify(...)
start_notify ==
    /\ gui.pc = "run"
    /\ btn.start
    /\ IF client = 0 \/ ~is_connected(clients, client)
       THEN /\ logged' = <<"no_connection">>
            /\ called' = <<>>
            /\ btn' = Buttons(TRUE, FALSE, FALSE)
            /\ UNCHANGED <<client, tasks, latest_csi_data, accepted, profile>>
       ELSE /\ HasFreeTask
            /\ \E g \in Gatt :
                  /\ profile' = g
                  /\ IF g = "ok"
                     THEN /\ latest_csi_data' = <<>>
                          /\ accepted' = <<>>
                          /\ tasks' = [tasks EXCEPT ![FreeTask] =
                                           Task("start", "start_notify", client)]
                          /\ logged' = <<>>
                          /\ called' = <<"start_notify">>
                          /\ UNCHANGED <<client, btn>>
                     ELSE /\ start_except(FreeTask, clients)
                          /\ UNCHANGED <<latest_csi_data, accepted>>
    /\ UNCHANGED <<csv, gui, plot_timer, clients, cliVars, rx, analysis>>

\* await self.client.start_notify(...) returned or raised
start_notify_subscribed(t, ok) ==
    /\ tasks[t].op = "start" /\ tasks[t].pc = "start_notify"
    /\ IF ok /\ is_connected(clients, tasks[t].cl)
       THEN /\ clients' = [clients EXCEPT ![tasks[t].cl].notifying = TRUE]
            /\ logged' = <<"started">>
            /\ called' = <<>>
            /\ btn' = [btn EXCEPT !.start = FALSE, !.stop = TRUE]
            /\ plot_timer' = TRUE
            /\ tasks' = [tasks EXCEPT ![t] = NoTask]
            /\ UNCHANGED client
       ELSE /\ clients' = clients
            /\ start_except(t, clients)
            /\ UNCHANGED plot_timer
    /\ UNCHANGED <<csv, gui, latest_csi_data, accepted, cliVars, profile, rx, analysis>>

\* the except block's await self.client.disconnect() returned or raised
start_notify_failed(t, ok) ==
    /\ tasks[t].op = "start" /\ tasks[t].pc = "fail_disconnect"
    /\ clients' = Disconnected(clients, tasks[t].cl, ok)
    /\ client' = 0
    /\ btn' = Buttons(TRUE, FALSE, FALSE)
    /\ tasks' = [tasks EXCEPT ![t] = NoTask]
    /\ logged' = <<>>
    /\ called' = <<>>
    /\ UNCHANGED <<csv, gui, plot_timer, latest_csi_data, accepted, cliVars,
                   profile, rx, analysis>>

----------------------------------------------------------------------------
(* ESP32CSIWidget.stop_notify *)

\* the finally block
stop_finally ==
    /\ client' = 0
    /\ plot_timer' = FALSE
    /\ btn' = Buttons(TRUE, FALSE, FALSE)

\* a click on stop_btn: up to await self.client.stop_notify(...)
stop_notify ==
    /\ gui.pc = "run"
    /\ btn.stop
    /\ logged' = <<>>
    /\ IF client = 0
       THEN /\ called' = <<>>
            /\ UNCHANGED <<client, plot_timer, btn, tasks>>
       ELSE IF is_connected(clients, client)
       THEN /\ HasFreeTask
            /\ tasks' = [tasks EXCEPT ![FreeTask] =
                             Task("stop", "stop_notify", client)]
            /\ called' = <<"stop_notify">>
            /\ UNCHANGED <<client, plot_timer, btn>>
       ELSE /\ stop_finally
            /\ called' = <<>>
            /\ UNCHANGED tasks
    /\ UNCHANGED <<csv, gui, latest_csi_data, accepted, clients, cliVars,
                   profile, rx, analysis>>

\* await self.client.stop_notify(...) returned or raised; then the second
\* is_connected test on whatever self.client is by now
stop_notify_unsubscribed(t, ok) ==
    /\ tasks[t].op = "stop" /\ tasks[t].pc = "stop_notify"
    /\ LET done == ok /\ is_connected(clients, tasks[t].cl)
           first == IF done THEN <<"stopped">> ELSE <<"stop_warning">>
       IN  /\ clients' = IF done
                         THEN [clients EXCEPT ![tasks[t].cl].notifying = FALSE]
                         ELSE clients
           /\ IF client = 0
              THEN /\ logged' = first \o <<"disconnect_warning">>
                   /\ called' = <<>>
                   /\ tasks' = [tasks EXCEPT ![t] = NoTask]
                   /\ stop_finally
              ELSE IF is_connected(clients, client)
              THEN /\ logged' = first
                   /\ called' = <<"disconnect">>
                   /\ tasks' = [tasks EXCEPT ![t] = Task("stop", "disconnect", client)]
                   /\ UNCHANGED <<client, plot_timer, btn>>
              ELSE /\ logged' = first
                   /\ called' = <<>>
                   /\ tasks' = [tasks EXCEPT ![t] = NoTask]
                   /\ stop_finally
    /\ UNCHANGED <<csv, gui, latest_csi_data, accepted, cliVars, profile, rx, analysis>>

\* await self.client.disconnect() returned or raised; then the finally block
stop_notify_disconnected(t, ok) ==
    /\ tasks[t].op = "stop" /\ tasks[t].pc = "disconnect"
    /\ clients' = Disconnected(clients, tasks[t].cl, ok)
    /\ logged' = IF ok THEN <<"disconnected">> ELSE <<"disconnect_warning">>
    /\ called' = <<>>
    /\ tasks' = [tasks EXCEPT ![t] = NoTask]
    /\ stop_finally
    /\ UNCHANGED <<csv, gui, latest_csi_data, accepted, cliVars, profile, rx, analysis>>

----------------------------------------------------------------------------
(* CSICollector.scan_and_connect, one step per resumption *)

\* the sleep before the next pass of the while True loop
Sleep(pc, seconds) == [cli EXCEPT !.pc = pc, !.sleep = seconds]

\* BleakScanner.discover() returned or raised
scan_and_connect_discovered(result) ==
    /\ cli.pc = "scan"
    /\ CASE result = "error" ->
              /\ printed' = <<"unexpected_error", "retrying">>
              /\ cli' = Sleep("retry_sleep", RECONNECT_DELAY)
              /\ UNCHANGED cli_client
         [] result = "none" ->
              /\ printed' = <<"not_found">>
              /\ cli' = Sleep("rescan_sleep", RECONNECT_DELAY)
              /\ UNCHANGED cli_client
         [] result = "found" ->
              /\ printed' = <<"connecting">>
              /\ cli' = [cli EXCEPT !.pc = "connect"]
              /\ cli_client' = [st |-> "new", notifying |-> FALSE]
    /\ UNCHANGED <<csv, guiVars, csi_data_list, profile, rx, analysis>>

\* the loop without its outer try/except: a failed connect ends main()
scan_and_connect_connected_uncaught(ok) ==
    /\ cli.pc = "connect"
    /\ IF ok
       THEN /\ cli_client' = [cli_client EXCEPT !.st = "connected"]
            /\ cli' = [cli EXCEPT !.pc = "start_notify"]
            /\ printed' = <<>>
       ELSE /\ cli_client' = NoClient
            /\ cli' = [pc |-> "off", file_exists |-> FALSE, sleep |-> 0]
            /\ printed' = <<"fatal_error">>
    /\ UNCHANGED <<csv, guiVars, csi_data_list, profile, rx, analysis>>

\* async with BleakClient(...): the connect of __aenter__ returned or raised
scan_and_connect_connected(ok) ==
    /\ cli.pc = "connect"
    /\ IF ok
       THEN /\ cli_client' = [cli_client EXCEPT !.st = "connected"]
            /\ cli' = [cli EXCEPT !.pc = "start_notify"]
            /\ printed' = <<>>
       ELSE /\ cli_client' = NoClient
            /\ cli' = Sleep("retry_sleep", RECONNECT_DELAY)
            /\ printed' = <<"unexpected_error", "retrying">>
    /\ UNCHANGED <<csv, guiVars, csi_data_list, profile, rx, analysis>>

\* await client.start_notify(...) returned or raised; on success the first
\* test of while client.is_connected and the sleep in its body
scan_and_connect_subscribed(ok) ==
    /\ cli.pc = "start_notify"
    /\ \E g \in Gatt :
          /\ profile' = g
          /\ IF ok /\ g = "ok" /\ cli_client.st = "connected"
             THEN /\ cli_client' = [cli_client EXCEPT !.notifying = TRUE]
                  /\ cli' = Sleep("poll_sleep", SCAN_INTERVAL)
                  /\ printed' = <<"started", "collecting">>
             ELSE /\ cli' = [cli EXCEPT !.pc = "exit_disconnect"]
                  /\ printed' = <<"connection_error">>
                  /\ UNCHANGED cli_client
    /\ UNCHANGED <<csv, guiVars, csi_data_list, rx, analysis>>

\* asyncio.sleep(SCAN_INTERVAL) returned: the next test of
\* while client.is_connected
scan_and_connect_polled ==
    /\ cli.pc = "poll_sleep"
    /\ IF cli_client.st = "connected"
       THEN /\ printed' = <<"collecting">>
            /\ cli' = Sleep("poll_sleep", SCAN_INTERVAL)
       ELSE /\ printed' = <<"lost">>
            /\ cli' = Sleep("exit_disconnect", 0)
    /\ UNCHANGED <<csv, guiVars, csi_data_list, cli_client, profile, rx, analysis>>

\* the disconnect of __aexit__ returned or raised; then the sleep that ends
\* the pass
scan_and_connect_exited(ok) ==
    /\ cli.pc = "exit_disconnect"
    /\ cli_client' = IF ok THEN NoClient ELSE cli_client
    /\ printed' = IF ok THEN <<"retrying">>
                  ELSE <<"unexpected_error", "retrying">>
    /\ cli' = Sleep("retry_sleep", RECONNECT_DELAY)
    /\ UNCHANGED <<csv, guiVars, csi_data_list, profile, rx, analysis>>

\* asyncio.sleep(RECONNECT_DELAY) returned: the next pass, up to discover()
scan_and_connect_slept ==
    /\ cli.pc \in {"retry_sleep", "rescan_sleep"}
    /\ cli' = Sleep("scan", 0)
    /\ printed' = <<>>
    /\ UNCHANGED <<csv, guiVars, csi_data_list, cli_client, profile, rx, analysis>>

\* the link of the collector's connected client drops
Collector_link_lost ==
    /\ cli_client.st = "connected"
    /\ cli_client' = [st |-> "closed", notifying |-> FALSE]
    /\ UNCHANGED <<csv, guiVars, cli, csi_data_list, printed, profile, rx, analysis>>

\* the collector's subscribed, connected client delivers a notification
Collector_notify(data, write_ok) ==
    /\ cli_client.st = "connected" /\ cli_client.notifying
    /\ Collector_handler_call(data, write_ok)

----------------------------------------------------------------------------
(* SpecStore: both objects constructed, then notifications of every kind *)

StoreNext ==
    \/ _init_data_exists
    \/ _init_data_open
    \/ _init_data_write
    \/ _ensure_data_file_exists
    \/ _ensure_data_file_open
    \/ _ensure_data_file_write
    \/ \E data \in SomePayloads, write_ok \in BOOLEAN :
           Widget_handler_call(data, write_ok)
    \/ \E data \in SomePayloads, write_ok \in BOOLEAN :
           Collector_handler_call(data, write_ok)

SpecStore == Init /\ [][StoreNext]_vars

(* SpecLog: process starts, exits and restarts of both collectors, with
   the records of one payload *)

LogNext ==
    \/ _init_data_exists
    \/ _init_data_open
    \/ _init_data_write
    \/ Widget_exit
    \/ _ensure_data_file_exists
    \/ _ensure_data_file_open
    \/ _ensure_data_file_write
    \/ Collector_exit
    \/ \E data \in OnePayload, write_ok \in BOOLEAN :
           Widget_handler_call(data, write_ok)
    \/ \E data \in OnePayload, write_ok \in BOOLEAN :
           Collector_handler_call(data, write_ok)

SpecLog == Init /\ [][LogNext]_vars

(* SpecParse: one notification of any payload up to MaxText characters,
   handed to a freshly constructed object *)

ParseInit ==
    /\ csv = [exists |-> TRUE, lines |-> <<HeaderLine>>]
    /\ gui = [pc |-> "run", file_exists |-> FALSE, write_header |-> TRUE]
    /\ WidgetFresh
    /\ cli = [pc |-> "scan", file_exists |-> TRUE, sleep |-> 0]
    /\ CollectorFresh
    /\ profile = "unread"
    /\ rx = [n |-> 0, to |-> "none", data |-> Undecodable]
    /\ analysis = NotRun

ParseNext ==
    \/ /\ rx.n = 0
       /\ \E data \in AllPayloads, write_ok \in BOOLEAN :
              Widget_handler_call(data, write_ok)
    \/ /\ rx.n = 0
       /\ \E data \in AllPayloads, write_ok \in BOOLEAN :
              Collector_handler_call(data, write_ok)

SpecParse == ParseInit /\ [][ParseNext]_vars

----------------------------------------------------------------------------
(* Vocabulary of the properties *)

\* a token of the form -?[0-9]+
WellFormed(x) ==
    \/ isdigit(x)
    \/ x # <<>> /\ Head(x) = "-" /\ isdigit(Tail(x))

\* the well-formed tokens of a payload as integers, in order
WellFormedValues(data) ==
    IF ~data.ok THEN <<>>
    ELSE LET w == SelectSeq(split(strip(data.text)), WellFormed)
         IN  [i \in 1..Len(w) |-> int(w[i])]

\* the last n elements of a sequence, all of it when it is shorter
LastN(seq, n) ==
    IF Len(seq) <= n THEN seq ELSE SubSeq(seq, Len(seq) - n + 1, Len(seq))

\* this step ran a notification handler
Delivered == rx'.n = rx.n + 1

Has(seq, x) == \E i \in 1..Len(seq) : seq[i] = x

IsRecord(line) == line # <<>> /\ line[1] = "ts"

\* neither process is inside its file initialisation
FileSettled ==
    /\ gui.pc \in {"off", "run"}
    /\ cli.pc \notin {"exists_checked", "opened"}

----------------------------------------------------------------------------
(* C1: each recent buffer holds exactly the last min(MAX_SAMPLES, count)
   samples its handler accepted since it was last cleared, in receipt
   order, so its length never exceeds MAX_SAMPLES. *)
C1_RecentBufferLastN ==
    /\ latest_csi_data = LastN(accepted, MAX_SAMPLES)
    /\ Len(latest_csi_data) <= MAX_SAMPLES
    /\ Len(csi_data_list) <= MAX_SAMPLES

(* C2: a payload with at least one well-formed token yields a stored sample
   whose values are exactly the well-formed tokens as integers, in order;
   no other token prevents it. *)
C2_SampleFromWellFormedTokens ==
    (rx.to # "none" /\ WellFormedValues(rx.data) # <<>>) =>
        /\ rx.to = "gui" => latest_csi_data = <<WellFormedValues(rx.data)>>
        /\ rx.to = "cli" => csi_data_list = <<WellFormedValues(rx.data)>>

(* C3: a payload without any well-formed token produces no sample: the
   handler leaves the recent buffer and the log as they were. *)
C3_NoTokensNoEffect ==
    [][(Delivered /\ WellFormedValues(rx'.data) = <<>>) =>
           UNCHANGED <<latest_csi_data, accepted, csi_data_list, csv>>]_vars

C3_Witness ==
    /\ rx.to = "gui"
    /\ WellFormedValues(rx.data) = <<>>
    /\ logged = <<"raw", "no_valid">>
    /\ Len(latest_csi_data) = MAX_SAMPLES
    /\ \E i \in 1..Len(csv.lines) : IsRecord(csv.lines[i])

(* C4: for every accepted sample the buffer push happens whether or not the
   log append succeeds; a failed append is reported and the pushed sample
   stays. *)
C4_PushDespiteLogFailure ==
    [][(Delivered /\ csi_values(rx'.data).values # <<>>) =>
           LET v == csi_values(rx'.data).values
           IN  /\ rx'.to = "gui" =>
                    /\ latest_csi_data' = Push(latest_csi_data, v)
                    /\ csv' = csv => Has(logged', "save_error")
               /\ rx'.to = "cli" =>
                    /\ csi_data_list' = Append(csi_data_list, v)
                    /\ csv' = csv => Has(printed', "save_error")]_vars

C4_Witness ==
    /\ rx.to = "gui"
    /\ Has(logged, "save_error")
    /\ latest_csi_data # <<>>
    /\ latest_csi_data[Len(latest_csi_data)] = csi_values(rx.data).values
    /\ \A i \in 1..Len(csv.lines) : ~IsRecord(csv.lines[i])

(* C5: a record once written is never removed, rewritten or reordered: the
   log at any moment is a prefix of the log at every later moment. *)
C5_LogAppendOnly ==
    [][\A i \in 1..Len(csv.lines) :
           IsRecord(csv.lines[i]) =>
               /\ i <= Len(csv'.lines)
               /\ csv'.lines[i] = csv.lines[i]]_vars

(* C6: once a process has initialised the file, the log's first line is the
   header and the header occurs exactly once. *)
C6_HeaderFirstAndOnce ==
    (FileSettled /\ (WidgetBuilt \/ CollectorBuilt)) =>
        /\ csv.exists
        /\ csv.lines # <<>>
        /\ csv.lines[1] = HeaderLine
        /\ Cardinality({i \in 1..Len(csv.lines) : csv.lines[i] = HeaderLine}) = 1

----------------------------------------------------------------------------
(* SpecGui: the GUI controller under every interleaving of clicks,
   resumptions, link losses and notifications *)

GuiNext ==
    \/ _init_data_exists
    \/ _init_data_open
    \/ _init_data_write
    \/ connect_ble
    \/ \E t \in 1..MaxTasks, result \in {"found", "none", "error"} :
           connect_ble_discovered(t, result)
    \/ \E t \in 1..MaxTasks, ok \in BOOLEAN : connect_ble_replaced(t, ok)
    \/ \E t \in 1..MaxTasks, ok \in BOOLEAN : connect_ble_connected(t, ok)
    \/ \E t \in 1..MaxTasks, ok \in BOOLEAN : connect_ble_failed(t, ok)
    \/ start_notify
    \/ \E t \in 1..MaxTasks, ok \in BOOLEAN : start_notify_subscribed(t, ok)
    \/ \E t \in 1..MaxTasks, ok \in BOOLEAN : start_notify_failed(t, ok)
    \/ stop_notify
    \/ \E t \in 1..MaxTasks, ok \in BOOLEAN : stop_notify_unsubscribed(t, ok)
    \/ \E t \in 1..MaxTasks, ok \in BOOLEAN : stop_notify_disconnected(t, ok)
    \/ Widget_link_lost
    \/ \E data \in OnePayload, write_ok \in BOOLEAN : Widget_notify(data, write_ok)

SpecGui == Init /\ [][GuiNext]_vars

(* SpecCli: the standalone collector *)

CollectorStep ==
    \/ _ensure_data_file_exists
    \/ _ensure_data_file_open
    \/ _ensure_data_file_write
    \/ \E result \in {"found", "none", "error"} :
           scan_and_connect_discovered(result)
    \/ \E ok \in BOOLEAN : scan_and_connect_connected(ok)
    \/ \E ok \in BOOLEAN : scan_and_connect_subscribed(ok)
    \/ scan_and_connect_polled
    \/ \E ok \in BOOLEAN : scan_and_connect_exited(ok)
    \/ scan_and_connect_slept

CliNext ==
    \/ CollectorStep
    \/ Collector_link_lost
    \/ \E data \in SomePayloads, write_ok \in BOOLEAN :
           Collector_notify(data, write_ok)

SpecCli == Init /\ [][CliNext]_vars

(* SpecSupervise: both programs, the GUI's user clicking only when no
   coroutine of the GUI is suspended. The event loops resume every coroutine
   whose await has completed (weak fairness of the resumptions); clicks,
   link losses and scan results are the environment's and carry none. *)

WidgetIdle == \A t \in 1..MaxTasks : tasks[t] = NoTask

WidgetStep ==
    \/ _init_data_exists
    \/ _init_data_open
    \/ _init_data_write
    \/ \E t \in 1..MaxTasks, result \in {"found", "none", "error"} :
           connect_ble_discovered(t, result)
    \/ \E t \in 1..MaxTasks, ok \in BOOLEAN : connect_ble_replaced(t, ok)
    \/ \E t \in 1..MaxTasks, ok \in BOOLEAN : connect_ble_connected(t, ok)
    \/ \E t \in 1..MaxTasks, ok \in BOOLEAN : connect_ble_failed(t, ok)
    \/ \E t \in 1..MaxTasks, ok \in BOOLEAN : start_notify_subscribed(t, ok)
    \/ \E t \in 1..MaxTasks, ok \in BOOLEAN : start_notify_failed(t, ok)
    \/ \E t \in 1..MaxTasks, ok \in BOOLEAN : stop_notify_unsubscribed(t, ok)
    \/ \E t \in 1..MaxTasks, ok \in BOOLEAN : stop_notify_disconnected(t, ok)

SuperviseNext ==
    \/ CollectorStep
    \/ Collector_link_lost
    \/ WidgetStep
    \/ WidgetIdle /\ connect_ble
    \/ WidgetIdle /\ start_notify
    \/ WidgetIdle /\ stop_notify
    \/ Widget_link_lost

SpecSupervise ==
    /\ Init
    /\ [][SuperviseNext]_vars
    /\ WF_vars(CollectorStep)
    /\ WF_vars(WidgetStep)

----------------------------------------------------------------------------
(* C7: no client is connected other than the one self.client holds, so at
   most one session is active at any instant. *)
C7_OneSession ==
    \A c \in 1..MaxClients : clients[c].st = "connected" => c = client

(* C8: whenever a streaming session loses its link, in either program, a
   new scan starts without any caller action (in the GUI: unless the caller
   asks for a stop first). *)
CollectorStreamLost == cli.pc = "poll_sleep" /\ cli_client.st = "closed"
WidgetStreamLost ==
    /\ WidgetIdle
    /\ btn.stop /\ plot_timer
    /\ client # 0 /\ clients[client].st = "closed"

C8_EveryLossRestartsScan ==
    /\ CollectorStreamLost ~> (cli.pc = "scan")
    /\ WidgetStreamLost ~>
           \/ \E t \in 1..MaxTasks : tasks[t].pc = "discover"
           \/ \E t \in 1..MaxTasks : tasks[t].op = "stop"
           \/ client = 0

(* The standalone collector on its own does what C8 describes: a lost link
   while streaming ends the session (the loss is printed, the client is
   disconnected), the loop sleeps RECONNECT_DELAY and only then scans
   again, every time. *)
CollectorRestartsAfterLoss ==
    /\ CollectorStreamLost ~> (cli.pc = "scan")
    /\ [][/\ (cli.pc = "poll_sleep" /\ cli'.pc # "poll_sleep") =>
                 /\ cli_client.st # "connected"
                 /\ cli'.pc = "exit_disconnect"
                 /\ printed' = <<"lost">>
          /\ (cli.pc = "exit_disconnect" /\ cli'.pc # "exit_disconnect") =>
                 /\ cli'.pc = "retry_sleep"
                 /\ cli'.sleep = RECONNECT_DELAY
          /\ (cli.pc = "retry_sleep" /\ cli'.pc # "retry_sleep") =>
                 cli'.pc = "scan"]_vars

(* C9: a caller-requested stop ends with the session closed (client
   cleared, plotting stopped, only Connect enabled) whatever the teardown
   calls did, and leaves nothing behind that starts a session before the
   caller asks for a connect again. *)
StopCompletes ==
    \E t \in 1..MaxTasks : tasks[t].op = "stop" /\ tasks'[t] = NoTask

C9_StopClosesForGood ==
    [][StopCompletes =>
           /\ client' = 0
           /\ ~plot_timer'
           /\ btn' = Buttons(TRUE, FALSE, FALSE)
           /\ \A t \in 1..MaxTasks : tasks'[t].op # "connect"]_vars

(* C10: a stop requested on a closed session, or while an earlier stop is
   still suspended in its teardown, does nothing: it begins no teardown of
   its own. *)
C10_SecondStopNoOp ==
    [][(client = 0 \/ \E t \in 1..MaxTasks : tasks[t].op = "stop") =>
           \A u \in 1..MaxTasks :
               tasks[u] = NoTask => tasks'[u].op # "stop"]_vars

----------------------------------------------------------------------------
(* SpecSession: either program on its own, from its start through its
   sessions, with the notifications its subscribed client delivers; the
   GUI's user clicks only when no coroutine of the GUI is suspended *)

\* an accepted payload, one without a valid token and one that does not
\* decode
FewPayloads == {Bytes(<<"1">>), Bytes(<<>>), Undecodable}

SessionNext ==
    \/ cli.pc = "off" /\ _init_data_exists
    \/ _init_data_open
    \/ _init_data_write
    \/ WidgetIdle /\ connect_ble
    \/ \E t \in 1..MaxTasks, result \in {"found", "none", "error"} :
           connect_ble_discovered(t, result)
    \/ \E t \in 1..MaxTasks, ok \in BOOLEAN : connect_ble_replaced(t, ok)
    \/ \E t \in 1..MaxTasks, ok \in BOOLEAN : connect_ble_connected(t, ok)
    \/ \E t \in 1..MaxTasks, ok \in BOOLEAN : connect_ble_failed(t, ok)
    \/ WidgetIdle /\ start_notify
    \/ \E t \in 1..MaxTasks, ok \in BOOLEAN : start_notify_subscribed(t, ok)
    \/ \E t \in 1..MaxTasks, ok \in BOOLEAN : start_notify_failed(t, ok)
    \/ WidgetIdle /\ stop_notify
    \/ \E t \in 1..MaxTasks, ok \in BOOLEAN : stop_notify_unsubscribed(t, ok)
    \/ \E t \in 1..MaxTasks, ok \in BOOLEAN : stop_notify_disconnected(t, ok)
    \/ Widget_link_lost
    \/ \E data \in FewPayloads, write_ok \in BOOLEAN :
           Widget_notify(data, write_ok)
    \/ gui.pc = "off" /\ _ensure_data_file_exists
    \/ _ensure_data_file_open
    \/ _ensure_data_file_write
    \/ \E result \in {"found", "none", "error"} :
           scan_and_connect_discovered(result)
    \/ \E ok \in BOOLEAN : scan_and_connect_connected(ok)
    \/ \E ok \in BOOLEAN : scan_and_connect_subscribed(ok)
    \/ scan_and_connect_polled
    \/ \E ok \in BOOLEAN : scan_and_connect_exited(ok)
    \/ scan_and_connect_slept
    \/ Collector_link_lost
    \/ \E data \in FewPayloads, write_ok \in BOOLEAN :
           Collector_notify(data, write_ok)

SpecSession == Init /\ [][SessionNext]_vars

\* the connected device lacks the service or the characteristic
Mismatch == profile \in {"no_service", "no_characteristic"}

(* C11: with a device that lacks the required service or characteristic
   the session ends faulted (client cleared, only Connect enabled once the
   best-effort disconnect is over), no subscription is ever established and
   neither the recent buffers nor the log receive a record. *)
C11_MismatchFaultsNoSample ==
    Mismatch =>
        /\ ~btn.start /\ ~btn.stop /\ ~plot_timer
        /\ WidgetIdle => (client = 0 /\ btn.connect)
        /\ \A c \in 1..MaxClients : ~clients[c].notifying
        /\ ~cli_client.notifying
        /\ cli.pc # "poll_sleep"
        /\ rx.n = 0
        /\ latest_csi_data = <<>>
        /\ csi_data_list = <<>>
        /\ \A i \in 1..Len(csv.lines) : ~IsRecord(csv.lines[i])

C11_Witness ==
    /\ Mismatch
    /\ \E t \in 1..MaxTasks : tasks[t] = Task("connect", "fail_disconnect", client)
    /\ client # 0
    /\ clients[client].st = "connected"
    /\ called = <<"disconnect">>
    /\ logged = <<"connection_failed">>

(* C12: samples reach the recent buffer and the log in the order their
   notifications were received: each accepted sample is put after every
   sample already in the buffer and its record after every line already in
   the log, and what was there keeps its place. *)
C12_SinksKeepReceiptOrder ==
    [][(Delivered /\ csi_values(rx'.data).values # <<>>) =>
           LET v == csi_values(rx'.data).values
               buffer == IF rx'.to = "gui" THEN latest_csi_data
                         ELSE csi_data_list
               after == IF rx'.to = "gui" THEN latest_csi_data'
                        ELSE csi_data_list'
           IN  /\ after # <<>>
               /\ after[Len(after)] = v
               /\ SubSeq(after, 1, Len(after) - 1)
                      = LastN(buffer, Len(after) - 1)
               /\ \/ csv' = csv
                  \/ /\ Len(csv'.lines) = Len(csv.lines) + 1
                     /\ csv'.lines[Len(csv'.lines)] = RecordLine(v)
                     /\ SubSeq(csv'.lines, 1, Len(csv.lines)) = csv.lines]_vars

C12_Witness ==
    /\ rx.to = "gui"
    /\ Len(latest_csi_data) = 2
    /\ latest_csi_data[1] # latest_csi_data[2]
    /\ latest_csi_data[2] = csi_values(rx.data).values
    /\ Len(csv.lines) >= 3
    /\ csv.lines[Len(csv.lines) - 1] = RecordLine(latest_csi_data[1])
    /\ csv.lines[Len(csv.lines)] = RecordLine(latest_csi_data[2])

(* C13: a stop is honoured while the session is suspended in connect or
   subscribe: when the stop completes, no connect() or start_notify() of
   the session is still awaited, so none can complete afterwards into a
   live connection or subscription. *)
C13_StopAbortsPending ==
    [][StopCompletes =>
           \A u \in 1..MaxTasks :
               tasks'[u].pc \notin {"connect", "start_notify"}]_vars

(* C14: a parser or store error on one notification is reported and does
   not end the session: the handler leaves the connection, the subscription
   and the controls as they were, and a notification with valid tokens is
   stored whatever the notifications before it were. *)
C14_HandlerErrorsKeepSession ==
    [][Delivered =>
           LET r == csi_values(rx'.data)
               out == IF rx'.to = "gui" THEN logged' ELSE printed'
               after == IF rx'.to = "gui" THEN latest_csi_data'
                        ELSE csi_data_list'
           IN  /\ UNCHANGED <<gui, client, clients, btn, plot_timer, tasks,
                              cli, cli_client>>
               /\ r.err # "none" => Has(out, "error_processing")
               /\ (r.err = "none" /\ r.values = <<>>) => Has(out, "no_valid")
               /\ (r.values # <<>> /\ csv' = csv) => Has(out, "save_error")
               /\ r.values # <<>> =>
                      (after # <<>> /\ after[Len(after)] = r.values)]_vars

C14_Witness ==
    /\ cli.pc = "poll_sleep"
    /\ cli_client = [st |-> "connected", notifying |-> TRUE]
    /\ rx = [n |-> 3, to |-> "cli", data |-> Bytes(<<"1">>)]
    /\ Len(csi_data_list) = 1
    /\ printed = <<"raw", "few_values", "parsed">>

(* C15: a failed connect or subscribe ends the session faulted with its
   client disconnected best-effort and the reference cleared, ends neither
   program, and in the collector's loop is followed, after RECONNECT_DELAY
   and not before, by a new scan; no scan, connect or subscribe failure
   leaves the loop. *)
C15_FailuresFaultAndRetry ==
    /\ (cli.pc \in {"exit_disconnect", "retry_sleep"}) ~> (cli.pc = "scan")
    /\ [][/\ CollectorBuilt => CollectorBuilt'
          /\ gui.pc = "run" => gui'.pc = "run"
          /\ (cli.pc = "scan" /\ cli'.pc \notin {"scan", "connect", "rescan_sleep"}) =>
                 /\ cli'.pc = "retry_sleep"
                 /\ cli'.sleep = RECONNECT_DELAY
          /\ (cli.pc = "connect" /\ cli'.pc \notin {"connect", "start_notify"}) =>
                 /\ cli'.pc = "retry_sleep"
                 /\ cli'.sleep = RECONNECT_DELAY
                 /\ cli_client' = NoClient
          /\ (cli.pc = "start_notify"
                 /\ cli'.pc \notin {"start_notify", "poll_sleep"}) =>
                 /\ cli'.pc = "exit_disconnect"
                 /\ printed' = <<"connection_error">>
          /\ (cli.pc = "exit_disconnect" /\ cli'.pc # "exit_disconnect") =>
                 /\ cli'.pc = "retry_sleep"
                 /\ cli'.sleep = RECONNECT_DELAY
                 /\ cli_client' = NoClient \/ Has(printed', "unexpected_error")
          /\ (cli'.pc = "scan" /\ cli.pc # "scan") =>
                 cli.pc \in {"opened", "retry_sleep", "rescan_sleep"}
          /\ \A t \in 1..MaxTasks :
                 /\ (/\ tasks[t].pc \in {"discover", "replace_disconnect",
                                          "connect", "start_notify"}
                     /\ tasks'[t] # tasks[t]
                     /\ \/ Has(logged', "connection_failed")
                        \/ Has(logged', "start_failed")) =>
                        \/ /\ tasks'[t] = Task(tasks[t].op, "fail_disconnect",
                                               client)
                           /\ client # 0
                           /\ called' = <<"disconnect">>
                        \/ /\ tasks'[t] = NoTask
                           /\ client' = 0
                           /\ btn' = Buttons(TRUE, FALSE, FALSE)
                 /\ (tasks[t].pc = "fail_disconnect" /\ tasks'[t] # tasks[t]) =>
                        /\ tasks'[t] = NoTask
                        /\ client' = 0
                        /\ btn' = Buttons(TRUE, FALSE, FALSE)]_vars

C15_Witness ==
    /\ cli.pc = "exit_disconnect"
    /\ printed = <<"connection_error">>
    /\ cli_client.st = "connected"
    /\ \E t \in 1..MaxTasks : tasks[t] = Task("start", "fail_disconnect", client)
    /\ client # 0
    /\ logged = <<"start_failed">>
    /\ called = <<"disconnect">>

(* C16: a scan pass that finds no device of the expected name makes no
   connect attempt, stays in discovery and scans again after the scan
   interval (SCAN_INTERVAL), not after the reconnect delay. *)
C16_NotFoundRescansAfterScanInterval ==
    [][/\ (cli.pc = "scan" /\ printed' = <<"not_found">>) =>
             /\ cli'.pc = "rescan_sleep"
             /\ cli'.sleep = SCAN_INTERVAL
             /\ cli_client' = cli_client
       /\ (cli.pc = "rescan_sleep" /\ cli'.pc # "rescan_sleep") =>
             cli'.pc = "scan"
       /\ \A t \in 1..MaxTasks :
             (tasks[t].pc = "discover" /\ logged' = <<"not_found">>) =>
                 /\ clients' = clients
                 /\ tasks'[t].op = "connect"
                 /\ tasks'[t].pc \in {"rescan_sleep", "discover"}]_vars

----------------------------------------------------------------------------
(* performdataa: the offline reader of the log *)

NaN == <<"nan">>

\* a row of the frame, filled with NaN to the table's width
Padded(fields, width) ==
    [k \in 1..width |-> IF k <= Len(fields) THEN fields[k] ELSE NaN]

\* load_csi_data(file_path): pd.read_csv. The first line names the columns.
\* The first data row sets the table's width when it has more fields than
\* there are names, its leading fields becoming the index; a later row with
\* more fields than that raises ParserError; a shorter row is filled with
\* NaN.
load_csi_data(f) ==
    IF ~f.exists
    THEN [err |-> "FileNotFoundError", columns |-> <<>>, lead |-> 0,
          rows |-> <<>>]
    ELSE IF f.lines = <<>>
    THEN [err |-> "EmptyDataError", columns |-> <<>>, lead |-> 0, rows |-> <<>>]
    ELSE LET names == split(f.lines[1])
             body == Tail(f.lines)
             first == IF body = <<>> THEN 0 ELSE Len(split(body[1]))
             width == IF first > Len(names) THEN first ELSE Len(names)
         IN  IF \E i \in 2..Len(body) : Len(split(body[i])) > width
             THEN [err |-> "ParserError", columns |-> <<>>, lead |-> 0,
                   rows |-> <<>>]
             ELSE [err |-> "none", columns |-> names,
                   lead |-> width - Len(names),
                   rows |-> [i \in 1..Len(body) |->
                                Padded(split(body[i]), width)]]

\* float(x) of a cell: raises ValueError unless the cell is a number
FloatRaises(x) == x # NaN /\ ~WellFormed(x)
float(x) == IF x = NaN THEN "nan" ELSE int(x)

\* process_csi_data(df): no column of the log is named "subcarrier...", so
\* each cell of the raw_csi column is split on "," and converted with
\* astype(float); rows[i] is column i of the transposed array returned
process_csi_data(df) ==
    IF df.err # "none" THEN [err |-> df.err, rows |-> <<>>]
    ELSE IF \A k \in 1..Len(df.columns) : df.columns[k] # <<"raw_csi">>
    THEN [err |-> "ValueError", rows |-> <<>>]
    ELSE LET col == CHOOSE k \in 1..Len(df.columns) :
                        /\ df.columns[k] = <<"raw_csi">>
                        /\ \A j \in 1..(k - 1) : df.columns[j] # <<"raw_csi">>
             cells == [i \in 1..Len(df.rows) |->
                          split(df.rows[i][df.lead + col])]
         IN  IF \E i \in 1..Len(cells) :
                    \E k \in 1..Len(cells[i]) : FloatRaises(cells[i][k])
             THEN [err |-> "ValueError", rows |-> <<>>]
             ELSE [err |-> "none",
                   rows |-> [i \in 1..Len(cells) |->
                                [k \in 1..Len(cells[i]) |->
                                    float(cells[i][k])]]]

\* analyze_csi_data(data_file): df = load_csi_data(file_path), then
\* process_csi_data(df); an exception is printed
analyze_csi_data ==
    /\ LET out == process_csi_data(load_csi_data(csv))
       IN  analysis' = [ran |-> TRUE, lines |-> csv.lines, err |-> out.err,
                        rows |-> out.rows]
    /\ analysis' # analysis
    /\ UNCHANGED <<csv, guiVars, cliVars, profile, rx>>

(* SpecRead: both objects constructed, notifications of every kind, and
   the offline reader run on the log at any moment *)

ReadNext ==
    \/ StoreNext
    \/ analyze_csi_data

SpecRead == Init /\ [][ReadNext]_vars

\* the fields of a record's line after its timestamp, as integers
RecordValues(line) ==
    LET fields == Tail(split(line))
    IN  [k \in 1..Len(fields) |-> int(fields[k])]

(* C17: for every record written, the line split on commas without its
   timestamp field is the sample's values in order, and the offline reader
   recovers that same sequence for every record of the log it reads. *)
C17_LogRoundTrip ==
    /\ [][(Delivered /\ csi_values(rx'.data).values # <<>> /\ csv' # csv) =>
              RecordValues(csv'.lines[Len(csv'.lines)])
                  = csi_values(rx'.data).values]_vars
    /\ [](analysis.ran =>
              \A i \in 1..Len(analysis.lines) :
                  IsRecord(analysis.lines[i]) =>
                      /\ analysis.err = "none"
                      /\ i - 1 \in 1..Len(analysis.rows)
                      /\ analysis.rows[i - 1] = RecordValues(analysis.lines[i]))

(* C18: in every state of the GUI controller at most one of the Connect,
   Start and Stop buttons is enabled. *)
C18_OneButtonEnabled ==
    /\ ~(btn.connect /\ btn.start)
    /\ ~(btn.connect /\ btn.stop)
    /\ ~(btn.start /\ btn.stop)

(* C19: whenever Start or Stop is enabled the controller holds a client. *)
C19_EnabledMeansClient ==
    (btn.start \/ btn.stop) => client # 0

====
